---- MODULE Spec2Model ----
(***************************************************************************)
(* A model of tree.hpp: BinaryTree<K, V>, BinaryTreeNode<K, V> and the     *)
(* explicit-stack BinaryTreeIterator<K, V>.                                *)
(*                                                                         *)
(* The heap is a function from node addresses to cells.  A cell that is    *)
(* not live has been deleted (or was never allocated).  Every method of    *)
(* the source is an operator that takes the heap and returns the heap it   *)
(* leaves, its return value and the set of addresses it dereferenced.      *)
(***************************************************************************)
EXTENDS Integers, Sequences, FiniteSets, TLC

\* The templates are instantiated as BinaryTree<int, bool>.  The client uses
\* the keys 1..MaxKey, and the heap has room for MaxNodes nodes.
MaxKey == 4
MaxNodes == 4
\* A for-each loop of the client is followed for at most MaxYield yields; a
\* traversal that yields every node once needs at most MaxNodes of them.
MaxYield == 5

Keys == 1..MaxKey
Values == BOOLEAN
Nodes == 1..MaxNodes

\* nullptr
Null == 0

VARIABLES
    root,       \* BinaryTree::root
    heap,       \* the BinaryTreeNode objects, by address
    it,         \* the client's BinaryTreeIterator: current and working_stack
    pc,         \* where the client is: idle, in the for-each loop, or holding an iterator
    yielded,    \* the pairs the running for-each loop has yielded so far
    result,     \* what the last operator* on the hand-held iterator did
    lastOp      \* the last method of the tree the client called, and what it returned

vars == <<root, heap, it, pc, yielded, result, lastOp>>

----------------------------------------------------------------------------
\* BinaryTreeNode

\* Storage that holds no node: never allocated, or deleted.
FreeCell == [live |-> FALSE, key |-> 0, value |-> FALSE, left |-> Null, right |-> Null]

\* BinaryTreeNode(keyin): key, left and right are initialised, value is not
\* in the initialiser list; u is what the storage happens to hold.
BinaryTreeNode(keyin, u) ==
    [live |-> TRUE, key |-> keyin, value |-> u, left |-> Null, right |-> Null]

\* delete this
Delete(h, n) == [h EXCEPT ![n] = FreeCell]

\* The addresses operator new may return.
FreeNodes(h) == {n \in DOMAIN h : ~h[n].live}

RECURSIVE NodeFind(_, _, _, _, _)

\* NodeFind that resets the value of the node it finds: "value = V();".
NodeFind_ResetsValue(h, n, k, a, u) ==
    IF k = h[n].key
    THEN [h |-> [h EXCEPT ![n].value = FALSE], ret |-> n, acc |-> {n}]
    ELSE IF k < h[n].key
    THEN LET h1 == IF h[n].left = Null
                   THEN [h EXCEPT ![a] = BinaryTreeNode(k, u), ![n].left = a]
                   ELSE h
             r == NodeFind(h1, h1[n].left, k, a, u)
         IN  [r EXCEPT !.acc = @ \cup {n}]
    ELSE LET h1 == IF h[n].right = Null
                   THEN [h EXCEPT ![a] = BinaryTreeNode(k, u), ![n].right = a]
                   ELSE h
             r == NodeFind(h1, h1[n].right, k, a, u)
         IN  [r EXCEPT !.acc = @ \cup {n}]

\* find(k) on node n; a is the address operator new returns if it is called,
\* u the indeterminate value of the node it constructs.
\* Returns the heap, the node whose value is referenced, and the nodes dereferenced.
NodeFind(h, n, k, a, u) ==
    IF k = h[n].key
    THEN [h |-> h, ret |-> n, acc |-> {n}]
    ELSE IF k < h[n].key
    THEN LET h1 == IF h[n].left = Null
                   THEN [h EXCEPT ![a] = BinaryTreeNode(k, u), ![n].left = a]
                   ELSE h
             r == NodeFind(h1, h1[n].left, k, a, u)
         IN  [r EXCEPT !.acc = @ \cup {n}]
    ELSE LET h1 == IF h[n].right = Null
                   THEN [h EXCEPT ![a] = BinaryTreeNode(k, u), ![n].right = a]
                   ELSE h
             r == NodeFind(h1, h1[n].right, k, a, u)
         IN  [r EXCEPT !.acc = @ \cup {n}]

RECURSIVE NodeContains(_, _, _)

\* NodeContains whose "k > key" branch was copied from the "k < key" branch
\* and still says left.
NodeContains_CopiedLeft(h, n, k) ==
    IF k = h[n].key
    THEN [ret |-> TRUE, acc |-> {n}]
    ELSE IF k < h[n].key
    THEN IF h[n].left # Null
         THEN LET r == NodeContains(h, h[n].left, k) IN [r EXCEPT !.acc = @ \cup {n}]
         ELSE [ret |-> FALSE, acc |-> {n}]
    ELSE IF h[n].left # Null
         THEN LET r == NodeContains(h, h[n].left, k) IN [r EXCEPT !.acc = @ \cup {n}]
         ELSE [ret |-> FALSE, acc |-> {n}]

\* contains(k) on node n.
NodeContains(h, n, k) ==
    IF k = h[n].key
    THEN [ret |-> TRUE, acc |-> {n}]
    ELSE IF k < h[n].key
    THEN IF h[n].left # Null
         THEN LET r == NodeContains(h, h[n].left, k) IN [r EXCEPT !.acc = @ \cup {n}]
         ELSE [ret |-> FALSE, acc |-> {n}]
    ELSE IF h[n].right # Null
         THEN LET r == NodeContains(h, h[n].right, k) IN [r EXCEPT !.acc = @ \cup {n}]
         ELSE [ret |-> FALSE, acc |-> {n}]

RECURSIVE RightMost(_, _)
\* while (successor->right) successor = successor->right;
RightMost(h, n) == IF h[n].right # Null THEN RightMost(h, h[n].right) ELSE n

RECURSIVE NodeErase(_, _, _)

\* NodeErase with "value = successor->value;" left out of the two-child branch.
NodeErase_KeyOnly(h, n, k) ==
    IF k < h[n].key
    THEN IF h[n].left # Null
         THEN LET r == NodeErase(h, h[n].left, k)
              IN  [h |-> [r.h EXCEPT ![n].left = r.ret], ret |-> n,
                   acc |-> r.acc \cup {n}, branch |-> r.branch]
         ELSE [h |-> h, ret |-> n, acc |-> {n}, branch |-> "absent"]
    ELSE IF k > h[n].key
    THEN IF h[n].right # Null
         THEN LET r == NodeErase(h, h[n].right, k)
              IN  [h |-> [r.h EXCEPT ![n].right = r.ret], ret |-> n,
                   acc |-> r.acc \cup {n}, branch |-> r.branch]
         ELSE [h |-> h, ret |-> n, acc |-> {n}, branch |-> "absent"]
    ELSE IF h[n].left = Null
    THEN [h |-> Delete(h, n), ret |-> h[n].right, acc |-> {n}, branch |-> "noleft"]
    ELSE IF h[n].right = Null
    THEN [h |-> Delete(h, n), ret |-> h[n].left, acc |-> {n}, branch |-> "noright"]
    ELSE LET successor == RightMost(h, h[n].left)
             h1 == [h EXCEPT ![n].key = h[successor].key]
             r == NodeErase(h1, h1[n].left, h1[successor].key)
         IN  [h |-> [r.h EXCEPT ![n].left = r.ret], ret |-> n,
              acc |-> r.acc \cup {n}, branch |-> "two"]

\* NodeErase with the test "else if (k > key)" left out: a key that is not
\* less than the node's key is taken to match it.
NodeErase_NoGreaterTest(h, n, k) ==
    IF k < h[n].key
    THEN IF h[n].left # Null
         THEN LET r == NodeErase(h, h[n].left, k)
              IN  [h |-> [r.h EXCEPT ![n].left = r.ret], ret |-> n,
                   acc |-> r.acc \cup {n}, branch |-> r.branch]
         ELSE [h |-> h, ret |-> n, acc |-> {n}, branch |-> "absent"]
    ELSE IF h[n].left = Null
    THEN [h |-> Delete(h, n), ret |-> h[n].right, acc |-> {n}, branch |-> "noleft"]
    ELSE IF h[n].right = Null
    THEN [h |-> Delete(h, n), ret |-> h[n].left, acc |-> {n}, branch |-> "noright"]
    ELSE LET successor == RightMost(h, h[n].left)
             h1 == [h EXCEPT ![n].key = h[successor].key,
                             ![n].value = h[successor].value]
             r == NodeErase(h1, h1[n].left, h1[successor].key)
         IN  [h |-> [r.h EXCEPT ![n].left = r.ret], ret |-> n,
              acc |-> r.acc \cup {n}, branch |-> "two"]

\* NodeErase with the loop "while (successor->right)" left out: the left
\* child is taken for the predecessor.
NodeErase_NoDescent(h, n, k) ==
    IF k < h[n].key
    THEN IF h[n].left # Null
         THEN LET r == NodeErase(h, h[n].left, k)
              IN  [h |-> [r.h EXCEPT ![n].left = r.ret], ret |-> n,
                   acc |-> r.acc \cup {n}, branch |-> r.branch]
         ELSE [h |-> h, ret |-> n, acc |-> {n}, branch |-> "absent"]
    ELSE IF k > h[n].key
    THEN IF h[n].right # Null
         THEN LET r == NodeErase(h, h[n].right, k)
              IN  [h |-> [r.h EXCEPT ![n].right = r.ret], ret |-> n,
                   acc |-> r.acc \cup {n}, branch |-> r.branch]
         ELSE [h |-> h, ret |-> n, acc |-> {n}, branch |-> "absent"]
    ELSE IF h[n].left = Null
    THEN [h |-> Delete(h, n), ret |-> h[n].right, acc |-> {n}, branch |-> "noleft"]
    ELSE IF h[n].right = Null
    THEN [h |-> Delete(h, n), ret |-> h[n].left, acc |-> {n}, branch |-> "noright"]
    ELSE LET successor == h[n].left
             h1 == [h EXCEPT ![n].key = h[successor].key,
                             ![n].value = h[successor].value]
             r == NodeErase(h1, h1[n].left, h1[successor].key)
         IN  [h |-> [r.h EXCEPT ![n].left = r.ret], ret |-> n,
              acc |-> r.acc \cup {n}, branch |-> "two"]

\* NodeErase whose no-left branch returns this instead of the right child.
NodeErase_ReturnsThis(h, n, k) ==
    IF k < h[n].key
    THEN IF h[n].left # Null
         THEN LET r == NodeErase(h, h[n].left, k)
              IN  [h |-> [r.h EXCEPT ![n].left = r.ret], ret |-> n,
                   acc |-> r.acc \cup {n}, branch |-> r.branch]
         ELSE [h |-> h, ret |-> n, acc |-> {n}, branch |-> "absent"]
    ELSE IF k > h[n].key
    THEN IF h[n].right # Null
         THEN LET r == NodeErase(h, h[n].right, k)
              IN  [h |-> [r.h EXCEPT ![n].right = r.ret], ret |-> n,
                   acc |-> r.acc \cup {n}, branch |-> r.branch]
         ELSE [h |-> h, ret |-> n, acc |-> {n}, branch |-> "absent"]
    ELSE IF h[n].left = Null
    THEN [h |-> Delete(h, n), ret |-> n, acc |-> {n}, branch |-> "noleft"]
    ELSE IF h[n].right = Null
    THEN [h |-> Delete(h, n), ret |-> h[n].left, acc |-> {n}, branch |-> "noright"]
    ELSE LET successor == RightMost(h, h[n].left)
             h1 == [h EXCEPT ![n].key = h[successor].key,
                             ![n].value = h[successor].value]
             r == NodeErase(h1, h1[n].left, h1[successor].key)
         IN  [h |-> [r.h EXCEPT ![n].left = r.ret], ret |-> n,
              acc |-> r.acc \cup {n}, branch |-> "two"]

\* NodeErase whose two-child branch says "left = left->erase(k);": the key
\* erased from the left subtree is k, not the predecessor's.
NodeErase_ErasesOldKey(h, n, k) ==
    IF k < h[n].key
    THEN IF h[n].left # Null
         THEN LET r == NodeErase(h, h[n].left, k)
              IN  [h |-> [r.h EXCEPT ![n].left = r.ret], ret |-> n,
                   acc |-> r.acc \cup {n}, branch |-> r.branch]
         ELSE [h |-> h, ret |-> n, acc |-> {n}, branch |-> "absent"]
    ELSE IF k > h[n].key
    THEN IF h[n].right # Null
         THEN LET r == NodeErase(h, h[n].right, k)
              IN  [h |-> [r.h EXCEPT ![n].right = r.ret], ret |-> n,
                   acc |-> r.acc \cup {n}, branch |-> r.branch]
         ELSE [h |-> h, ret |-> n, acc |-> {n}, branch |-> "absent"]
    ELSE IF h[n].left = Null
    THEN [h |-> Delete(h, n), ret |-> h[n].right, acc |-> {n}, branch |-> "noleft"]
    ELSE IF h[n].right = Null
    THEN [h |-> Delete(h, n), ret |-> h[n].left, acc |-> {n}, branch |-> "noright"]
    ELSE LET successor == RightMost(h, h[n].left)
             h1 == [h EXCEPT ![n].key = h[successor].key,
                             ![n].value = h[successor].value]
             r == NodeErase(h1, h1[n].left, k)
         IN  [h |-> [r.h EXCEPT ![n].left = r.ret], ret |-> n,
              acc |-> r.acc \cup {n}, branch |-> "two"]

\* erase(k) on node n.  Returns the heap, the pointer returned, the nodes
\* dereferenced, and which branch the matching node took ("absent" if none).
NodeErase(h, n, k) ==
    IF k < h[n].key
    THEN IF h[n].left # Null
         THEN LET r == NodeErase(h, h[n].left, k)
              IN  [h |-> [r.h EXCEPT ![n].left = r.ret], ret |-> n,
                   acc |-> r.acc \cup {n}, branch |-> r.branch]
         ELSE [h |-> h, ret |-> n, acc |-> {n}, branch |-> "absent"]
    ELSE IF k > h[n].key
    THEN IF h[n].right # Null
         THEN LET r == NodeErase(h, h[n].right, k)
              IN  [h |-> [r.h EXCEPT ![n].right = r.ret], ret |-> n,
                   acc |-> r.acc \cup {n}, branch |-> r.branch]
         ELSE [h |-> h, ret |-> n, acc |-> {n}, branch |-> "absent"]
    ELSE IF h[n].left = Null
    THEN [h |-> Delete(h, n), ret |-> h[n].right, acc |-> {n}, branch |-> "noleft"]
    ELSE IF h[n].right = Null
    THEN [h |-> Delete(h, n), ret |-> h[n].left, acc |-> {n}, branch |-> "noright"]
    ELSE LET successor == RightMost(h, h[n].left)
             h1 == [h EXCEPT ![n].key = h[successor].key,
                             ![n].value = h[successor].value]
             r == NodeErase(h1, h1[n].left, h1[successor].key)
         IN  [h |-> [r.h EXCEPT ![n].left = r.ret], ret |-> n,
              acc |-> r.acc \cup {n}, branch |-> "two"]

----------------------------------------------------------------------------
\* BinaryTree

\* operator[](key) on the tree with root r.
TreeIndex(h, r, key, a, u) ==
    LET h1 == IF r = Null THEN [h EXCEPT ![a] = BinaryTreeNode(key, u)] ELSE h
        r1 == IF r = Null THEN a ELSE r
        f == NodeFind(h1, r1, key, a, u)
    IN  [h |-> f.h, root |-> r1, ret |-> f.ret, acc |-> f.acc]

\* contains(key)
TreeContains(h, r, key) ==
    IF r = Null THEN [ret |-> FALSE, acc |-> {}] ELSE NodeContains(h, r, key)

\* TreeErase with "root->erase(key);" in place of "root = root->erase(key);".
TreeErase_KeepsRoot(h, r, key) ==
    IF r # Null
    THEN LET e == NodeErase(h, r, key)
         IN  [h |-> e.h, root |-> r, acc |-> e.acc, branch |-> e.branch]
    ELSE [h |-> h, root |-> r, acc |-> {}, branch |-> "absent"]

\* erase(key)
TreeErase(h, r, key) ==
    IF r # Null
    THEN LET e == NodeErase(h, r, key)
         IN  [h |-> e.h, root |-> e.ret, acc |-> e.acc, branch |-> e.branch]
    ELSE [h |-> h, root |-> r, acc |-> {}, branch |-> "absent"]

----------------------------------------------------------------------------
\* BinaryTreeIterator.  working_stack is a sequence, its top at the end.

RECURSIVE PushLeft(_, _, _)
\* while (current != nullptr) { working_stack.push(current); current = current->left; }
PushLeft(h, cur, stk) ==
    IF cur # Null THEN PushLeft(h, h[cur].left, Append(stk, cur)) ELSE stk

\* incr that takes the top of the stack for current and does not pop it.
incr_NoPop(h, i) ==
    LET s == PushLeft(h, i.current, i.working_stack)
    IN  IF s # <<>>
        THEN [current |-> s[Len(s)], working_stack |-> s]
        ELSE [current |-> Null, working_stack |-> <<>>]

\* incr()
incr(h, i) ==
    LET s == PushLeft(h, i.current, i.working_stack)
    IN  IF s # <<>>
        THEN [current |-> s[Len(s)], working_stack |-> SubSeq(s, 1, Len(s) - 1)]
        ELSE [current |-> Null, working_stack |-> <<>>]

\* BinaryTreeIterator that sets current to root and does not call incr().
BinaryTreeIterator_NoIncr(h, r, start) ==
    IF start /\ r # Null
    THEN [current |-> r, working_stack |-> <<>>]
    ELSE [current |-> Null, working_stack |-> <<>>]

\* BinaryTreeIterator(root, start)
BinaryTreeIterator(h, r, start) ==
    IF start /\ r # Null
    THEN incr(h, [current |-> r, working_stack |-> <<>>])
    ELSE [current |-> Null, working_stack |-> <<>>]

\* begin() and end()
TreeBegin(h, r) == BinaryTreeIterator(h, r, TRUE)
TreeEnd(h, r) == BinaryTreeIterator(h, r, FALSE)

\* OpNotEqual that compares the positions of the two iterators.
OpNotEqual_ComparesPosition(a, b) ==
    a.current # b.current \/ a.working_stack # b.working_stack

\* a != b
OpNotEqual(a, b) ==
    LET curEnd == (a.current = Null /\ a.working_stack = <<>>)
        otherEnd == (b.current = Null /\ b.working_stack = <<>>)
    IN  ~(curEnd /\ otherEnd)

\* ++i
OpIncrement(h, i) == incr(h, i)

\* *i : the iterator it leaves, whether it threw std::logic_error, the pair returned
NoPair == <<0, FALSE>>

\* OpDeref that returns a default pair instead of throwing.
OpDeref_NoThrow(h, i) ==
    IF i.current # Null
    THEN [it |-> i, threw |-> FALSE, pair |-> <<h[i.current].key, h[i.current].value>>]
    ELSE [it |-> i, threw |-> FALSE, pair |-> NoPair]

OpDeref(h, i) ==
    IF i.current # Null
    THEN [it |-> i, threw |-> FALSE, pair |-> <<h[i.current].key, h[i.current].value>>]
    ELSE [it |-> i, threw |-> TRUE, pair |-> NoPair]

----------------------------------------------------------------------------
\* Addresses.  The source tests node pointers against nullptr and nothing
\* else: it never compares two addresses, orders them or prints them, so
\* what the program does is the same under any renaming of addresses.
\* Between two calls of the client the model keeps the heap in one
\* representative of each class: the nodes reachable from root are numbered
\* in pre-order, then come the live nodes that are not reachable.

RECURSIVE PreOrder(_, _)
PreOrder(h, n) ==
    IF n = Null THEN <<>>
    ELSE <<n>> \o PreOrder(h, h[n].left) \o PreOrder(h, h[n].right)

RECURSIVE SortedSeq(_)
SortedSeq(S) ==
    IF S = {} THEN <<>>
    ELSE LET m == CHOOSE x \in S : \A y \in S : x <= y
         IN  <<m>> \o SortedSeq(S \ {m})

Range(s) == {s[i] : i \in 1..Len(s)}

Compact(h, r) ==
    LET reach == PreOrder(h, r)
        order == reach \o SortedSeq({n \in DOMAIN h : h[n].live} \ Range(reach))
        addr(n) == IF n = Null THEN Null
                   ELSE CHOOSE i \in 1..Len(order) : order[i] = n
    IN  [h |-> [i \in DOMAIN h |->
                  IF i <= Len(order)
                  THEN [h[order[i]] EXCEPT !.left = addr(@), !.right = addr(@)]
                  ELSE FreeCell],
         root |-> addr(r)]

----------------------------------------------------------------------------
\* The for-each loop, run as a whole on an unchanging tree:
\*   for (it = begin(); it != end(); ++it) yield *it;
\* followed for at most fuel rounds.  done tells whether the loop ended.

RECURSIVE ForEach(_, _, _, _, _)
ForEach(h, i, e, out, fuel) ==
    IF ~OpNotEqual(i, e) THEN [yielded |-> out, done |-> TRUE]
    ELSE IF fuel = 0 THEN [yielded |-> out, done |-> FALSE]
    ELSE LET d == OpDeref(h, i)
         IN  IF d.threw THEN [yielded |-> out, done |-> FALSE]
             ELSE ForEach(h, OpIncrement(h, d.it), e, Append(out, d.pair), fuel - 1)

Traversal(h, r) == ForEach(h, TreeBegin(h, r), TreeEnd(h, r), <<>>, MaxYield)

----------------------------------------------------------------------------
\* The client: one thread that owns the tree.

NoIterator == [current |-> Null, working_stack |-> <<>>]
NoResult == [called |-> FALSE, threw |-> FALSE, pair |-> NoPair, before |-> NoIterator]

\* lastOp names the method called last.  For tree[k] = v and erase(k) it
\* holds the key (and the value assigned); branch tells whether operator[]
\* created a node, and which branch of BinaryTreeNode::erase the key took.
NoOp == [op |-> "none", key |-> 0, val |-> FALSE, branch |-> "none"]

\* What operator new may return during tree[k], and what the storage it
\* returns may hold.  When k is in the tree operator new is not called.
NewAddresses(h, r, k) ==
    IF TreeContains(h, r, k).ret THEN {Null} ELSE FreeNodes(h)
NewContents(h, r, k) ==
    IF TreeContains(h, r, k).ret THEN {FALSE} ELSE Values

Created(h, r, k) == IF TreeContains(h, r, k).ret THEN "found" ELSE "created"

Init ==
    /\ root = Null
    /\ heap = [n \in Nodes |-> FreeCell]
    /\ it = NoIterator
    /\ pc = "idle"
    /\ yielded = <<>>
    /\ result = NoResult
    /\ lastOp = NoOp

\* x = tree[k];  the value is read through the returned reference.
IndexRead(k) ==
    /\ pc = "idle"
    /\ \E a \in NewAddresses(heap, root, k), u \in NewContents(heap, root, k) :
          LET r == TreeIndex(heap, root, k, a, u)
              c == Compact(r.h, r.root)
          IN  /\ heap' = c.h
              /\ root' = c.root
              /\ lastOp' = [op |-> "index", key |-> 0, val |-> r.h[r.ret].value,
                            branch |-> Created(heap, root, k)]
    /\ UNCHANGED <<it, pc, yielded, result>>

\* tree[k] = v;  the value is assigned through the returned reference.
IndexAssign(k, v) ==
    /\ pc = "idle"
    /\ \E a \in NewAddresses(heap, root, k), u \in NewContents(heap, root, k) :
          LET r == TreeIndex(heap, root, k, a, u)
              c == Compact([r.h EXCEPT ![r.ret].value = v], r.root)
          IN  /\ heap' = c.h
              /\ root' = c.root
              /\ lastOp' = [op |-> "assign", key |-> k, val |-> v,
                            branch |-> Created(heap, root, k)]
    /\ UNCHANGED <<it, pc, yielded, result>>

\* Contains that looks the key up with find(), which creates what it does
\* not find: "return root && (root->find(key), true);".
Contains_ViaFind(k) ==
    /\ pc = "idle"
    /\ \E a \in NewAddresses(heap, root, k), u \in NewContents(heap, root, k) :
          LET r == IF root = Null
                   THEN [h |-> heap, root |-> root]
                   ELSE TreeIndex(heap, root, k, a, u)
              c == Compact(r.h, r.root)
          IN  /\ heap' = c.h
              /\ root' = c.root
    /\ lastOp' = [op |-> "contains", key |-> 0,
                  val |-> TreeContains(heap, root, k).ret, branch |-> "none"]
    /\ UNCHANGED <<it, pc, yielded, result>>

\* tree.contains(k)
Contains(k) ==
    /\ pc = "idle"
    /\ lastOp' = [op |-> "contains", key |-> 0,
                  val |-> TreeContains(heap, root, k).ret, branch |-> "none"]
    /\ UNCHANGED <<root, heap, it, pc, yielded, result>>

\* tree.erase(k)
Erase(k) ==
    /\ pc = "idle"
    /\ LET r == TreeErase(heap, root, k)
           c == Compact(r.h, r.root)
       IN  /\ heap' = c.h
           /\ root' = c.root
           /\ lastOp' = [op |-> "erase", key |-> k, val |-> FALSE,
                         branch |-> r.branch]
    /\ UNCHANGED <<it, pc, yielded, result>>

\* for (it = tree.begin(); it != tree.end(); ++it) yield *it;
ForBegin ==
    /\ pc = "idle"
    /\ it' = TreeBegin(heap, root)
    /\ yielded' = <<>>
    /\ pc' = "test"
    /\ lastOp' = [NoOp EXCEPT !.op = "begin"]
    /\ UNCHANGED <<root, heap, result>>

ForTest ==
    /\ pc = "test"
    /\ pc' = IF OpNotEqual(it, TreeEnd(heap, root)) THEN "body" ELSE "done"
    /\ UNCHANGED <<root, heap, it, yielded, result, lastOp>>

\* An exception thrown by operator* leaves the loop.
ForBody ==
    /\ pc = "body"
    /\ Len(yielded) < MaxYield
    /\ LET d == OpDeref(heap, it)
       IN  /\ it' = d.it
           /\ yielded' = IF d.threw THEN yielded ELSE Append(yielded, d.pair)
           /\ pc' = IF d.threw THEN "thrown" ELSE "incr"
    /\ UNCHANGED <<root, heap, result, lastOp>>

ForIncr ==
    /\ pc = "incr"
    /\ it' = OpIncrement(heap, it)
    /\ pc' = "test"
    /\ UNCHANGED <<root, heap, yielded, result, lastOp>>

\* The loop is over; its iterator goes out of scope.
ForExit ==
    /\ pc = "done"
    /\ pc' = "idle"
    /\ it' = NoIterator
    /\ yielded' = <<>>
    /\ UNCHANGED <<root, heap, result, lastOp>>

\* The client takes an iterator in hand: auto i = tree.begin(), or tree.end().
Hold(start) ==
    /\ pc = "idle"
    /\ it' = BinaryTreeIterator(heap, root, start)
    /\ pc' = "held"
    /\ result' = NoResult
    /\ lastOp' = [NoOp EXCEPT !.op = IF start THEN "begin" ELSE "end"]
    /\ UNCHANGED <<root, heap, yielded>>

\* *i on the iterator in hand; result keeps the iterator as it was before.
Star ==
    /\ pc = "held"
    /\ LET d == OpDeref(heap, it)
       IN  /\ it' = d.it
           /\ result' = [called |-> TRUE, threw |-> d.threw, pair |-> d.pair,
                         before |-> it]
    /\ UNCHANGED <<root, heap, pc, yielded, lastOp>>

\* ++i on the iterator in hand
PlusPlus ==
    /\ pc = "held"
    /\ it' = OpIncrement(heap, it)
    /\ result' = NoResult
    /\ UNCHANGED <<root, heap, pc, yielded, lastOp>>

\* The iterator in hand goes out of scope.
Release ==
    /\ pc = "held"
    /\ pc' = "idle"
    /\ it' = NoIterator
    /\ result' = NoResult
    /\ UNCHANGED <<root, heap, yielded, lastOp>>

Next ==
    \/ \E k \in Keys : IndexRead(k)
    \/ \E k \in Keys, v \in Values : IndexAssign(k, v)
    \/ \E k \in Keys : Contains(k)
    \/ \E k \in Keys : Erase(k)
    \/ ForBegin
    \/ ForTest
    \/ ForBody
    \/ ForIncr
    \/ ForExit
    \/ \E start \in BOOLEAN : Hold(start)
    \/ Star
    \/ PlusPlus
    \/ Release

Spec == Init /\ [][Next]_vars

----------------------------------------------------------------------------
\* What the tree holds.

Live(h) == {n \in DOMAIN h : h[n].live}
StoredKeys(h) == {h[n].key : n \in Live(h)}
HoldsNoKeys(h) == Live(h) = {}
Loop == {"test", "body", "incr", "done"}

RECURSIVE SubKeys(_, _)
SubKeys(h, n) ==
    IF n = Null THEN {}
    ELSE {h[n].key} \cup SubKeys(h, h[n].left) \cup SubKeys(h, h[n].right)

YieldedKeys(out) == {out[i][1] : i \in 1..Len(out)}

\* What a client finds under key k: whether contains(k), and the value that
\* tree[k] then refers to.
Lookup(h, r, k) ==
    IF TreeContains(h, r, k).ret
    THEN LET f == TreeIndex(h, r, k, Null, FALSE) IN <<TRUE, f.h[f.ret].value>>
    ELSE <<FALSE, FALSE>>

IsBST(h, r) ==
    /\ Range(PreOrder(h, r)) = Live(h)
    /\ Cardinality(StoredKeys(h)) = Cardinality(Live(h))
    /\ \A n \in Live(h) :
          /\ \A j \in SubKeys(h, h[n].left) : j < h[n].key
          /\ \A j \in SubKeys(h, h[n].right) : j > h[n].key

----------------------------------------------------------------------------
\* C1.  Sorted traversal: the for-each loop yields keys in strictly
\* ascending order, every yielded key greater than the one before it.
\* Fails: operator* does not move current to the right child, so operator++
\* returns to the same node and the loop yields the least key again.
C1_SortedTraversal ==
    \A i \in 2..Len(yielded) : yielded[i][1] > yielded[i - 1][1]

\* C2.  The for-each loop over a tree of n keys ends: it never yields more
\* than n pairs, after n rounds the iterator is exhausted, it != end() is
\* false, and every stored key was yielded exactly once.
\* Fails on every tree that holds a key.
C2_TraversalTerminates ==
    pc \in Loop =>
        LET n == Cardinality(Live(heap))
        IN  /\ Len(yielded) <= n
            /\ (pc = "test" /\ Len(yielded) = n) =>
                  /\ it.current = Null
                  /\ it.working_stack = <<>>
                  /\ ~OpNotEqual(it, TreeEnd(heap, root))
                  /\ YieldedKeys(yielded) = StoredKeys(heap)
            /\ pc = "done" => Len(yielded) = n

\* C3.  Round trip: after tree[k] = v, contains(k) is true and a traversal
\* from begin() includes the pair (k, v).
\* Fails when k is not the least key: the traversal never leaves the least key.
C3_RoundTrip ==
    lastOp.op = "assign" =>
        /\ TreeContains(heap, root, lastOp.key).ret
        /\ <<lastOp.key, lastOp.val>> \in Range(Traversal(heap, root).yielded)

\* C4.  Erase removes: after erase(k), contains(k) is false, a traversal does
\* not yield k, and every other key is found as before, with the value it had.
C4_EraseRemoves ==
    /\ lastOp.op = "erase" =>
          /\ ~TreeContains(heap, root, lastOp.key).ret
          /\ lastOp.key \notin StoredKeys(heap)
          /\ lastOp.key \notin YieldedKeys(Traversal(heap, root).yielded)
    /\ pc = "idle" =>
          \A k \in Keys :
              LET e == TreeErase(heap, root, k)
              IN  /\ ~TreeContains(e.h, e.root, k).ret
                  /\ k \notin YieldedKeys(Traversal(e.h, e.root).yielded)
                  /\ \A j \in Keys \ {k} :
                        Lookup(e.h, e.root, j) = Lookup(heap, root, j)

\* a key whose node had two children and was not the root has been erased
C4_Witness ==
    /\ lastOp.op = "erase"
    /\ lastOp.branch = "two"
    /\ root # Null
    /\ heap[root].key > lastOp.key

\* C5.  Erasing an absent key changes nothing: root, the nodes, their links,
\* keys and values are the same; and erasing any key twice leaves what
\* erasing it once leaves.
C5_EraseAbsentNoOp ==
    pc = "idle" =>
        \A k \in Keys :
            LET e == TreeErase(heap, root, k)
                e2 == TreeErase(e.h, e.root, k)
            IN  /\ ~TreeContains(heap, root, k).ret => (e.h = heap /\ e.root = root)
                /\ e2.h = e.h
                /\ e2.root = e.root

\* an absent key has been erased from a tree of several keys
C5_Witness ==
    /\ lastOp.op = "erase"
    /\ lastOp.branch = "absent"
    /\ Cardinality(Live(heap)) >= 2

\* C6.  BST invariant: every key in a node's left subtree is less than the
\* node's key, every key in its right subtree is greater, no two nodes hold
\* equal keys (and the nodes reachable from root are exactly the live ones).
C6_BSTInvariant == IsBST(heap, root)

\* a node with two children has been erased and several keys remain
C6_Witness ==
    /\ lastOp.op = "erase"
    /\ lastOp.branch = "two"
    /\ Cardinality(Live(heap)) >= 3

\* C7.  operator[](k) constructs exactly one node when k is absent and none
\* when it is present; of the nodes there were, nothing changes but the one
\* child link that receives the new leaf (root, when the tree was empty).
C7_IndexCreatesOne ==
    pc = "idle" =>
        \A k \in Keys :
            \A a \in NewAddresses(heap, root, k), u \in NewContents(heap, root, k) :
                LET r == TreeIndex(heap, root, k, a, u)
                IN  IF TreeContains(heap, root, k).ret
                    THEN r.h = heap /\ r.root = root
                    ELSE /\ a \notin Live(heap)
                         /\ Live(r.h) = Live(heap) \cup {a}
                         /\ r.ret = a
                         /\ r.h[a].key = k
                         /\ r.h[a].left = Null
                         /\ r.h[a].right = Null
                         /\ IF root = Null
                            THEN /\ r.root = a
                                 /\ \A n \in DOMAIN heap \ {a} : r.h[n] = heap[n]
                            ELSE /\ r.root = root
                                 /\ \E p \in Live(heap) :
                                       /\ \/ /\ heap[p].left = Null
                                             /\ r.h[p] = [heap[p] EXCEPT !.left = a]
                                          \/ /\ heap[p].right = Null
                                             /\ r.h[p] = [heap[p] EXCEPT !.right = a]
                                       /\ \A n \in DOMAIN heap \ {a, p} :
                                             r.h[n] = heap[n]

\* operator[] has constructed a leaf under a node of a tree that was not empty
C7_Witness ==
    /\ lastOp.op = "index"
    /\ lastOp.branch = "created"
    /\ Cardinality(Live(heap)) >= 2

\* C8.  operator* on an iterator whose current is null throws and leaves
\* current and the stack as they were; on a positioned iterator it returns
\* the key and value of the current node and does not throw.
C8_Deref ==
    result.called =>
        IF result.before.current = Null
        THEN result.threw /\ it = result.before
        ELSE /\ ~result.threw
             /\ result.pair = <<heap[result.before.current].key,
                                heap[result.before.current].value>>

\* the end() iterator of a tree that holds keys has been dereferenced
C8_Witness ==
    /\ result.called
    /\ result.threw
    /\ lastOp.op = "end"
    /\ root # Null

\* C9.  Empty iteration: on a tree without keys begin() != end() is false at
\* once and the loop yields nothing.
C9_EmptyIteration ==
    HoldsNoKeys(heap) =>
        /\ ~OpNotEqual(TreeBegin(heap, root), TreeEnd(heap, root))
        /\ Traversal(heap, root) = [yielded |-> <<>>, done |-> TRUE]
        /\ pc \in Loop => (yielded = <<>> /\ pc \in {"test", "done"})

\* the tree has been emptied by erasing its last key
C9_Witness ==
    /\ HoldsNoKeys(heap)
    /\ lastOp.op = "erase"
    /\ lastOp.branch = "noleft"

\* C10.  root is null exactly when the tree holds no keys; on such a tree
\* contains(k) is false and erase(k) leaves root null, and neither
\* dereferences a node.
C10_RootNullIffEmpty ==
    /\ (root = Null) <=> HoldsNoKeys(heap)
    /\ root = Null =>
          \A k \in Keys :
              /\ TreeContains(heap, root, k) = [ret |-> FALSE, acc |-> {}]
              /\ TreeErase(heap, root, k).root = Null
              /\ TreeErase(heap, root, k).h = heap
              /\ TreeErase(heap, root, k).acc = {}

\* the last key of the tree has been erased and root is null again
C10_Witness ==
    /\ root = Null
    /\ lastOp.op = "erase"
    /\ lastOp.branch # "absent"

----------------------------------------------------------------------------
\* A client that runs one script: tree[5]; tree[3]; tree[8]; tree[1]; tree[4];
\* then erase(5), with contains(5) and for-each loops in between.  Where the
\* script stands is read off the keys the tree holds.

ScenarioKeys == <<5, 3, 8, 1, 4>>
ScenarioErased == ScenarioKeys[1]
ScenarioNodes == 1..Len(ScenarioKeys)

Prefix(i) == {ScenarioKeys[j] : j \in 1..i}

ScenarioInit ==
    /\ root = Null
    /\ heap = [n \in ScenarioNodes |-> FreeCell]
    /\ it = NoIterator
    /\ pc = "idle"
    /\ yielded = <<>>
    /\ result = NoResult
    /\ lastOp = NoOp

\* the next tree[k] of the script
ScenarioIndex ==
    \E i \in 1..Len(ScenarioKeys) :
        /\ StoredKeys(heap) = Prefix(i - 1)
        /\ IndexRead(ScenarioKeys[i])

\* erase(5), once the five keys are in
ScenarioErase ==
    /\ StoredKeys(heap) = Prefix(Len(ScenarioKeys))
    /\ Erase(ScenarioErased)

ScenarioContains == Contains(ScenarioErased)

ScenarioNext ==
    \/ ScenarioIndex
    \/ ScenarioErase
    \/ ScenarioContains
    \/ ForBegin
    \/ ForTest
    \/ ForBody
    \/ ForIncr
    \/ ForExit

SpecScenario == ScenarioInit /\ [][ScenarioNext]_vars

KeysOf(out) == [i \in 1..Len(out) |-> out[i][1]]

\* C11.  Scenario: after tree[5], tree[3], tree[8], tree[1], tree[4] a
\* traversal yields exactly 1, 3, 4, 5, 8; erase(5) then takes the two-child
\* branch with predecessor 4, after which a traversal yields exactly
\* 1, 3, 4, 8 and contains(5) is false.
\* Fails: the traversal yields 1, 1, 1, ... and does not end.
C11_Scenario ==
    StoredKeys(heap) = Prefix(Len(ScenarioKeys)) =>
        /\ Traversal(heap, root) = [yielded |-> Traversal(heap, root).yielded,
                                    done |-> TRUE]
        /\ KeysOf(Traversal(heap, root).yielded) = <<1, 3, 4, 5, 8>>
        /\ LET e == TreeErase(heap, root, ScenarioErased)
           IN  /\ e.branch = "two"
               /\ e.root = root
               /\ e.h[e.root].key = 4
               /\ KeysOf(Traversal(e.h, e.root).yielded) = <<1, 3, 4, 8>>
               /\ Traversal(e.h, e.root).done
               /\ ~TreeContains(e.h, e.root, ScenarioErased).ret

----------------------------------------------------------------------------
\* The keys of the tree greater than k, and the least of a set of keys.
KeysAbove(h, k) == {j \in StoredKeys(h) : j > k}
Least(S) == CHOOSE x \in S : \A y \in S : x <= y

\* C12.  Step: for an iterator positioned at node N, operator* moves current
\* to N's right child and operator++ then leaves the iterator at N's in-order
\* successor, or exhausted if N holds the greatest key; never at N again.
\* Fails: operator* leaves current at N, and operator++ comes back to N.
C12_StepToSuccessor ==
    (pc \in {"body", "held"} /\ it.current # Null) =>
        LET N == it.current
            d == OpDeref(heap, it)
            n == OpIncrement(heap, d.it)
        IN  /\ d.it.current = heap[N].right
            /\ n.current # N
            /\ IF KeysAbove(heap, heap[N].key) = {}
               THEN n = [current |-> Null, working_stack |-> <<>>]
               ELSE /\ n.current # Null
                    /\ heap[n.current].key = Least(KeysAbove(heap, heap[N].key))

----------------------------------------------------------------------------
\* The abstract map: a partial function from keys to values.
MapAssign(m, k, v) == [j \in DOMAIN m \cup {k} |-> IF j = k THEN v ELSE m[j]]
MapErase(m, k) == [j \in DOMAIN m \ {k} |-> m[j]]
MapContains(m, k) == k \in DOMAIN m

\* The map a tree stands for: the keys of the nodes reachable from root, each
\* with the value of a node that holds it.
TreeMap(h, r) ==
    [k \in SubKeys(h, r) |->
        h[CHOOSE n \in Range(PreOrder(h, r)) : h[n].key = k].value]

\* The tree holds exactly the map m: one live node for each key of m, with
\* m's value, and nothing else.
Holds(h, r, m) ==
    /\ Range(PreOrder(h, r)) = Live(h)
    /\ StoredKeys(h) = DOMAIN m
    /\ Cardinality(Live(h)) = Cardinality(DOMAIN m)
    /\ \A n \in Live(h) : h[n].value = m[h[n].key]

\* tree[k] = v
TreeAssign(h, r, k, v, a, u) ==
    LET f == TreeIndex(h, r, k, a, u)
    IN  [h |-> [f.h EXCEPT ![f.ret].value = v], root |-> f.root]

\* C13.  The tree refines the abstract map.  The tree of every reachable
\* state holds the map it stands for, and from there every operation agrees
\* with the map's: after tree[k] = v the tree holds the map with m[k] = v,
\* after erase(k) it holds the map without k, and contains(k) tells whether
\* k is in the map's domain.
C13_RefinesMap ==
    LET m == TreeMap(heap, root)
    IN  /\ Holds(heap, root, m)
        /\ pc = "idle" =>
              \A k \in Keys :
                  /\ TreeContains(heap, root, k).ret = MapContains(m, k)
                  /\ LET e == TreeErase(heap, root, k)
                     IN  Holds(e.h, e.root, MapErase(m, k))
                  /\ \A v \in Values :
                        \A a \in NewAddresses(heap, root, k),
                           u \in NewContents(heap, root, k) :
                            LET t == TreeAssign(heap, root, k, v, a, u)
                            IN  Holds(t.h, t.root, MapAssign(m, k, v))

\* a key that was in the tree has been assigned TRUE, and the tree holds a
\* FALSE under another key
C13_Witness ==
    /\ lastOp.op = "assign"
    /\ lastOp.branch = "found"
    /\ lastOp.val
    /\ \E n \in Live(heap) : ~heap[n].value

----------------------------------------------------------------------------
\* The node reachable from r that holds key k, and the node whose left or
\* right pointer is n (Null when there is none).
NodeOf(h, r, k) == CHOOSE n \in Range(PreOrder(h, r)) : h[n].key = k
ParentOf(h, n) ==
    IF \E p \in Live(h) : n \in {h[p].left, h[p].right}
    THEN CHOOSE p \in Live(h) : n \in {h[p].left, h[p].right}
    ELSE Null

----------------------------------------------------------------------------
\* Node lifetime.  Each method is followed statement by statement and gives
\* the sequence of its accesses to node storage: a read or a write of a
\* member of a node, operator new, and delete.  The key parameter k of
\* BinaryTreeNode::erase is a reference: kref is the node whose key member it
\* refers to, Null when it refers to the client's own variable.  The tree is
\* walked in the heap h the call starts with: a call relinks a node only
\* after the calls below it have returned.

Ev(o, n) == [op |-> o, node |-> n]
ReadKey(kref) == IF kref = Null THEN <<>> ELSE <<Ev("read", kref)>>

RECURSIVE SpineEvents(_, _)
\* while (successor->right) successor = successor->right;
SpineEvents(h, s) ==
    IF h[s].right # Null
    THEN <<Ev("read", s), Ev("read", s)>> \o SpineEvents(h, h[s].right)
    ELSE <<Ev("read", s)>>

RECURSIVE NodeEraseEvents(_, _, _, _)

\* NodeEraseEvents of a two-child branch that erases the predecessor first
\* and copies its key and value afterwards.
NodeEraseEvents_CopiesAfter(h, n, k, kref) ==
    IF k < h[n].key
    THEN ReadKey(kref) \o <<Ev("read", n), Ev("read", n)>>
         \o IF h[n].left # Null
            THEN <<Ev("read", n)>> \o NodeEraseEvents(h, h[n].left, k, kref)
                 \o <<Ev("write", n)>>
            ELSE <<>>
    ELSE IF k > h[n].key
    THEN ReadKey(kref) \o <<Ev("read", n)>> \o ReadKey(kref)
         \o <<Ev("read", n), Ev("read", n)>>
         \o IF h[n].right # Null
            THEN <<Ev("read", n)>> \o NodeEraseEvents(h, h[n].right, k, kref)
                 \o <<Ev("write", n)>>
            ELSE <<>>
    ELSE ReadKey(kref) \o <<Ev("read", n)>> \o ReadKey(kref) \o <<Ev("read", n)>>
         \o IF h[n].left = Null
            THEN <<Ev("read", n), Ev("read", n), Ev("free", n)>>
            ELSE IF h[n].right = Null
            THEN <<Ev("read", n), Ev("read", n), Ev("read", n), Ev("free", n)>>
            ELSE LET successor == RightMost(h, h[n].left)
                 IN  <<Ev("read", n), Ev("read", n), Ev("read", n)>>
                     \o SpineEvents(h, h[n].left)
                     \o <<Ev("read", n)>>
                     \o NodeEraseEvents(h, h[n].left, h[successor].key, successor)
                     \o <<Ev("write", n)>>
                     \o <<Ev("read", successor), Ev("write", n)>>
                     \o <<Ev("read", successor), Ev("write", n)>>

\* erase(k) on node n
NodeEraseEvents(h, n, k, kref) ==
    IF k < h[n].key
    THEN ReadKey(kref) \o <<Ev("read", n), Ev("read", n)>>
         \o IF h[n].left # Null
            THEN <<Ev("read", n)>> \o NodeEraseEvents(h, h[n].left, k, kref)
                 \o <<Ev("write", n)>>
            ELSE <<>>
    ELSE IF k > h[n].key
    THEN ReadKey(kref) \o <<Ev("read", n)>> \o ReadKey(kref)
         \o <<Ev("read", n), Ev("read", n)>>
         \o IF h[n].right # Null
            THEN <<Ev("read", n)>> \o NodeEraseEvents(h, h[n].right, k, kref)
                 \o <<Ev("write", n)>>
            ELSE <<>>
    ELSE ReadKey(kref) \o <<Ev("read", n)>> \o ReadKey(kref) \o <<Ev("read", n)>>
         \o IF h[n].left = Null
            THEN <<Ev("read", n), Ev("read", n), Ev("free", n)>>
            ELSE IF h[n].right = Null
            THEN <<Ev("read", n), Ev("read", n), Ev("read", n), Ev("free", n)>>
            ELSE LET successor == RightMost(h, h[n].left)
                 IN  <<Ev("read", n), Ev("read", n), Ev("read", n)>>
                     \o SpineEvents(h, h[n].left)
                     \o <<Ev("read", successor), Ev("write", n)>>
                     \o <<Ev("read", successor), Ev("write", n)>>
                     \o <<Ev("read", n)>>
                     \o NodeEraseEvents(h, h[n].left, h[successor].key, successor)
                     \o <<Ev("write", n)>>

\* BinaryTree::erase(key)
TreeEraseEvents(h, r, key) ==
    IF r # Null THEN NodeEraseEvents(h, r, key, Null) ELSE <<>>

RECURSIVE NodeFindEvents(_, _, _, _)
\* find(k) on node n; the last access is the client's, through the returned V&
NodeFindEvents(h, n, k, a) ==
    IF k = h[n].key
    THEN <<Ev("read", n), Ev("write", n)>>
    ELSE IF k < h[n].key
    THEN <<Ev("read", n), Ev("read", n), Ev("read", n)>>
         \o IF h[n].left = Null
            THEN <<Ev("new", a), Ev("write", a), Ev("write", n), Ev("read", n)>>
                 \o <<Ev("read", a), Ev("write", a)>>
            ELSE <<Ev("read", n)>> \o NodeFindEvents(h, h[n].left, k, a)
    ELSE <<Ev("read", n), Ev("read", n), Ev("read", n)>>
         \o IF h[n].right = Null
            THEN <<Ev("new", a), Ev("write", a), Ev("write", n), Ev("read", n)>>
                 \o <<Ev("read", a), Ev("write", a)>>
            ELSE <<Ev("read", n)>> \o NodeFindEvents(h, h[n].right, k, a)

\* BinaryTree::operator[](key)
TreeIndexEvents(h, r, key, a) ==
    IF r = Null
    THEN <<Ev("new", a), Ev("write", a), Ev("read", a), Ev("write", a)>>
    ELSE NodeFindEvents(h, r, key, a)

RECURSIVE FreeTreeEvents(_, _)

\* FreeTreeEvents of a freetree that deletes this before its subtrees.
FreeTreeEvents_DeletesFirst(h, n) ==
    <<Ev("free", n)>>
    \o <<Ev("read", n)>>
    \o (IF h[n].left # Null
        THEN <<Ev("read", n)>> \o FreeTreeEvents(h, h[n].left) \o <<Ev("write", n)>>
        ELSE <<>>)
    \o <<Ev("read", n)>>
    \o (IF h[n].right # Null
        THEN <<Ev("read", n)>> \o FreeTreeEvents(h, h[n].right) \o <<Ev("write", n)>>
        ELSE <<>>)

\* freetree() on node n
FreeTreeEvents(h, n) ==
    <<Ev("read", n)>>
    \o (IF h[n].left # Null
        THEN <<Ev("read", n)>> \o FreeTreeEvents(h, h[n].left) \o <<Ev("write", n)>>
        ELSE <<>>)
    \o <<Ev("read", n)>>
    \o (IF h[n].right # Null
        THEN <<Ev("read", n)>> \o FreeTreeEvents(h, h[n].right) \o <<Ev("write", n)>>
        ELSE <<>>)
    \o <<Ev("free", n)>>

\* ~BinaryTree()
TreeDestroyEvents(h, r) == IF r # Null THEN FreeTreeEvents(h, r) ELSE <<>>

\* The nodes a sequence of accesses deletes, and the heap they leave.
Freed(ev) == {ev[i].node : i \in {j \in 1..Len(ev) : ev[j].op = "free"}}
FreeCount(ev) == Cardinality({j \in 1..Len(ev) : ev[j].op = "free"})
TreeDestroy(h, r) ==
    [n \in DOMAIN h |-> IF n \in Freed(TreeDestroyEvents(h, r)) THEN FreeCell ELSE h[n]]


\* The client of the lifetime claims: operator[] and erase in any order,
\* then the tree goes out of scope.  ~BinaryTree() leaves root as it is.
Destroy ==
    /\ pc = "idle"
    /\ heap' = TreeDestroy(heap, root)
    /\ pc' = "destroyed"
    /\ UNCHANGED <<root, it, yielded, result, lastOp>>

NextLifetime ==
    \/ \E k \in Keys : IndexRead(k)
    \/ \E k \in Keys, v \in Values : IndexAssign(k, v)
    \/ \E k \in Keys : Erase(k)
    \/ Destroy

SpecLifetime == Init /\ [][NextLifetime]_vars

\* Every access is to a node that is live when it is made: live in h or
\* returned by operator new before, and not deleted before; operator new
\* returns storage that holds no node; nothing is deleted twice.
Safe(h, ev) ==
    \A i \in 1..Len(ev) :
        LET n == ev[i].node
        IN  IF ev[i].op = "new"
            THEN n \in FreeNodes(h) /\ \A j \in 1..(i - 1) : ev[j] # ev[i]
            ELSE /\ n \in Live(h) \/ \E j \in 1..(i - 1) : ev[j] = Ev("new", n)
                 /\ \A j \in 1..(i - 1) : ev[j] # Ev("free", n)

\* C15.  Node lifetime safety: in operator[], erase and the destructor no
\* node is deleted twice and none is read or written after it was deleted;
\* the tree never points to a deleted node; erase of a present key deletes
\* exactly one node, erase of an absent key none, operator[] none, and the
\* destructor deletes every node reachable from root exactly once and leaves
\* no node behind.
C15_LifetimeSafety ==
    /\ pc = "idle" =>
          /\ Range(PreOrder(heap, root)) = Live(heap)
          /\ \A k \in Keys :
                /\ LET ev == TreeEraseEvents(heap, root, k)
                       e == TreeErase(heap, root, k)
                   IN  /\ Safe(heap, ev)
                       /\ FreeCount(ev) = IF TreeContains(heap, root, k).ret THEN 1 ELSE 0
                       /\ Freed(ev) = Live(heap) \ Live(e.h)
                       /\ Range(PreOrder(e.h, e.root)) = Live(e.h)
                /\ \A a \in NewAddresses(heap, root, k) :
                      LET ev == TreeIndexEvents(heap, root, k, a)
                      IN  /\ Safe(heap, ev)
                          /\ FreeCount(ev) = 0
          /\ LET ev == TreeDestroyEvents(heap, root)
             IN  /\ Safe(heap, ev)
                 /\ FreeCount(ev) = Cardinality(Live(heap))
                 /\ Freed(ev) = Range(PreOrder(heap, root))
    /\ pc = "destroyed" => Live(heap) = {}

\* a tree of several nodes has been destroyed after a two-child erase
C15_Witness ==
    /\ pc = "destroyed"
    /\ root # Null
    /\ lastOp.op = "erase"
    /\ lastOp.branch = "two"

----------------------------------------------------------------------------
\* C16.  Start positioning: on a tree that holds keys, begin() is positioned
\* at the node with the least key and its stack holds the proper ancestors of
\* that node, the root at the bottom, each next one the left child of the one
\* below, the parent of the least node on top; end() has current null and an
\* empty stack on every tree.
C16_StartPosition ==
    /\ TreeEnd(heap, root) = [current |-> Null, working_stack |-> <<>>]
    /\ root # Null =>
          LET b == TreeBegin(heap, root)
              s == b.working_stack
          IN  /\ b.current \in Live(heap)
              /\ heap[b.current].key = Least(StoredKeys(heap))
              /\ heap[b.current].left = Null
              /\ IF s = <<>>
                 THEN b.current = root
                 ELSE /\ s[1] = root
                      /\ \A i \in 1..(Len(s) - 1) : s[i + 1] = heap[s[i]].left
                      /\ heap[s[Len(s)]].left = b.current
    /\ (pc = "held" /\ lastOp.op = "begin" /\ ~result.called /\ it.current = Null) =>
          root = Null

\* the client holds begin() of a tree whose least node is two levels below the root
C16_Witness ==
    /\ pc = "held"
    /\ lastOp.op = "begin"
    /\ Len(it.working_stack) >= 2
    /\ it = TreeBegin(heap, root)

----------------------------------------------------------------------------
\* An iterator is exhausted when current is null and the stack is empty.
Exhausted(i) == i.current = Null /\ i.working_stack = <<>>

\* The iterators a client can have in hand on the tree as it is: its own,
\* begin(), end(), and each of them after ++.
Iterators ==
    LET base == {it, TreeBegin(heap, root), TreeEnd(heap, root)}
    IN  base \cup {OpIncrement(heap, i) : i \in base}

\* C17.  Continuation test: a != b is false exactly when a and b are both
\* exhausted, and true otherwise, also when a and b are at the same node and
\* when only one of them is exhausted; the test in the for-each loop leaves
\* the loop's iterator as it was.
C17_ContinuationTest ==
    /\ [](\A a \in Iterators, b \in Iterators :
             /\ OpNotEqual(a, b) = ~(Exhausted(a) /\ Exhausted(b))
             /\ (a.current # Null /\ a = b) => OpNotEqual(a, b)
             /\ (Exhausted(a) /\ ~Exhausted(b)) =>
                    (OpNotEqual(a, b) /\ OpNotEqual(b, a)))
    /\ [][pc = "test" =>
             /\ it' = it
             /\ pc' = IF Exhausted(it) THEN "done" ELSE "body"]_vars

\* the loop's test has let a positioned iterator into another round
C17_Witness ==
    /\ pc = "body"
    /\ Len(yielded) >= 1
    /\ it.current # Null
    /\ it = TreeBegin(heap, root)

----------------------------------------------------------------------------
\* C18.  Iterator operations are read-only on the tree: begin(), end(),
\* operator!=, operator* and operator++ leave root and every node's key,
\* value, left and right as they were, and so does contains(k).
C18_ReadOnly ==
    [][(pc # "idle" \/ pc' # "idle" \/ lastOp'.op = "contains") =>
          (root' = root /\ heap' = heap)]_vars

\* contains has found a key in a tree of several nodes
C18_Witness ==
    /\ lastOp.op = "contains"
    /\ lastOp.val
    /\ Cardinality(Live(heap)) >= 3

----------------------------------------------------------------------------
RECURSIVE Height(_, _)
\* The number of nodes on the longest path from n down to a leaf.
Height(h, n) ==
    IF n = Null THEN 0
    ELSE LET l == Height(h, h[n].left)
             r == Height(h, h[n].right)
         IN  1 + (IF l >= r THEN l ELSE r)

\* C19.  Pending-stack invariant: between the operations of a client that
\* iterates, the stack holds only nodes whose right subtree has not been
\* visited: no node is on it twice, no yielded node is on it nor below a
\* stacked node's right pointer, keys strictly decrease from bottom to top,
\* every stacked key is greater than the current node's key, and the stack is
\* never higher than the tree.
C19_PendingStack ==
    pc # "idle" =>
        LET s == it.working_stack
        IN  /\ \A i \in 1..Len(s) : s[i] \in Live(heap)
            /\ \A i \in 1..Len(s), j \in 1..Len(s) : i # j => s[i] # s[j]
            /\ \A i \in 1..(Len(s) - 1) : heap[s[i + 1]].key < heap[s[i]].key
            /\ it.current # Null =>
                  \A i \in 1..Len(s) : heap[s[i]].key > heap[it.current].key
            /\ \A i \in 1..Len(s) :
                  /\ heap[s[i]].key \notin YieldedKeys(yielded)
                  /\ SubKeys(heap, heap[s[i]].right) \cap YieldedKeys(yielded) = {}
            /\ Len(s) <= Height(heap, root)

\* the loop has gone through two rounds with two nodes pending
C19_Witness ==
    /\ pc = "test"
    /\ Len(yielded) >= 2
    /\ Len(it.working_stack) >= 2

----------------------------------------------------------------------------
\* V(), the default value of V: false for bool.
DefaultValue == FALSE

\* C20.  Default value on creation: when operator[](k) creates the node for
\* an absent key, the value read through the returned reference before any
\* assignment is the default value of V.
\* Fails: the constructor's initialiser list names key, left and right, not
\* value; a bool member is left with whatever its storage holds.
C20_DefaultValue ==
    (lastOp.op = "index" /\ lastOp.branch = "created") =>
        lastOp.val = DefaultValue

====
